---- MODULE Spec2Model ----
(***************************************************************************)
(* A model of bozeklab/part_detection:                                     *)
(*   - WhaleTripletDataset.__getitem__ over a WhaleDataset (datasets.py),  *)
(*     statement by statement, with the wrapped dataset's mutable height   *)
(*     field shared by every caller;                                       *)
(*   - landmark_coordinates (lib.py), the weighted centroid of one         *)
(*     (batch, part) attention map;                                        *)
(*   - rigid_transform (lib.py), forward and inverse, over                 *)
(*     torchvision's affine resampling on a small pixel grid;              *)
(*   - CUBDataset.__init__ (datasets.py, inrae_big/datasets.py), the       *)
(*     train/val/test selection of rows;                                   *)
(*   - WhaleDataset.__init__ (datasets.py), the loop that assigns every    *)
(*     row of train.csv to 'train' or 'val'.                               *)
(***************************************************************************)
EXTENDS Integers, Sequences, FiniteSets

VARIABLES
    labels,       \* orig_dataset.labels: index 0..n-1 -> label
    height,       \* orig_dataset.height, the field every fetch reads
    height_list,  \* WhaleTripletDataset.height_list
    frame,        \* per caller: position in __getitem__ and its locals
    history,      \* the calls returned so far, where they are recorded
    files,        \* per sample: channels of the array imread decodes
    maps,         \* landmark_coordinates: one (batch, part) slice of maps
    lm,           \* landmark_coordinates: its position and what it returned
    img,          \* rigid_transform: the image held in img
    rt,           \* rigid_transform: arguments, position, affine calls made
    cub,          \* CUBDataset: the files read and the datasets constructed
    whale         \* WhaleDataset.__init__: train.csv and the rows selected

tripletVars == <<labels, height, height_list, frame, history, files>>
landmarkVars == <<maps, lm>>
rigidVars == <<img, rt>>
datasetVars == <<cub, whale>>
vars == <<tripletVars, landmarkVars, rigidVars, datasetVars>>

\* the parts of the state a specification does not use stay at these values
TripletOff ==
    /\ labels = <<>>
    /\ height = 0
    /\ height_list = <<>>
    /\ frame = <<>>
    /\ files = <<>>
    /\ history = [on |-> FALSE, labels0 |-> <<>>, entry_height |-> 0,
                 calls |-> <<>>]

LandmarkOff ==
    /\ maps = [shape2 |-> 0, shape3 |-> 0, a |-> <<>>]
    /\ lm = [pc |-> "off"]

RigidOff ==
    /\ img = <<>>
    /\ rt = [pc |-> "off"]

CubOff == cub = [pc |-> "off"]

WhaleOff == whale = [pc |-> "off"]

----------------------------------------------------------------------------
(* Bounds of the triplet model *)

\* longest label vector
MaxLen == 5

\* longest label vector when two callers interleave
MaxLenConc == 2

\* calls made while the returned triples are recorded
MaxCalls == 2

\* longest label vector while the returned triples are recorded
MaxLenHist == 3

\* label values a dataset may carry
LabelIds == {0, 1, 2}

\* height lists: the spec's example, the constructor's default, a mixed one
HeightLists == {<<32, 64, 128>>, <<256, 256, 256>>, <<64, 32, 64>>}

\* heights the wrapped dataset may have been constructed with
InitHeights == {256, 16}

LabelVectors(n) == UNION {[0..(len - 1) -> LabelIds] : len \in 1..n}

----------------------------------------------------------------------------
(* landmark_coordinates (lib.py) *)

\* largest extent of an attention map along dim 2 and along dim 3
MaxDim == 2

\* largest value of one cell of an attention map
MaxMass == 2

\* one (batch, part) slice of maps, an array of shape (shape2, shape3);
\* the code broadcasts over dims 0 and 1, so every slice is treated alike
MapsOfShape(n2, n3) ==
    {[shape2 |-> n2, shape3 |-> n3, a |-> f] :
        f \in [(0..(n2 - 1)) \X (0..(n3 - 1)) -> 0..MaxMass]}

Cells(m) == (0..(m.shape2 - 1)) \X (0..(m.shape3 - 1))

RECURSIVE SumOver(_, _)
SumOver(f, S) ==
    IF S = {} THEN 0
    ELSE LET c == CHOOSE x \in S : TRUE
         IN f[c] + SumOver(f, S \ {c})

RECURSIVE GCD(_, _)
GCD(a, b) == IF b = 0 THEN a ELSE GCD(b, a % b)

Abs(n) == IF n < 0 THEN -n ELSE n

\* a float as an exact fraction in lowest terms; NaN is 0/0, +-inf is +-1/0
NaN == [num |-> 0, den |-> 0]
Frac(n, d) ==
    LET g == GCD(Abs(n), Abs(d))
        sg == IF d < 0 THEN -1 ELSE 1
    IN [num |-> sg * (n \div g), den |-> sg * (d \div g)]

\* torch's true division of two floats: never raises; 0/0 is nan.  The
\* quotient is kept as the exact fraction that torch rounds to the nearest
\* float: the cells of the model hold small integers, whose products and sums
\* are exact in floating point, so the division is the only rounding step,
\* and it moves a quotient by less than one unit in the last place.  An
\* equality on loc_x or loc_y below is an equality of this exact quotient
\* (the float result equals it up to rounding); an inequality below compares
\* the quotient with a whole index and leaves a margin of one index.
TorchDiv(n, d) ==
    IF d = 0
    THEN IF n = 0 THEN NaN
         ELSE [num |-> IF n > 0 THEN 1 ELSE -1, den |-> 0]
    ELSE Frac(n, d)

\* torch.meshgrid(torch.arange(maps.shape[2]), torch.arange(maps.shape[3])),
\* default indexing 'ij': grid_x[i, j] = i and grid_y[i, j] = j
MeshgridXY(m) ==
    [grid_x |-> [c \in Cells(m) |-> c[2]], grid_y |-> [c \in Cells(m) |-> c[1]]]
MeshgridFromOne(m) ==
    [grid_x |-> [c \in Cells(m) |-> c[1] + 1],
     grid_y |-> [c \in Cells(m) |-> c[2] + 1]]
Meshgrid(m) ==
    [grid_x |-> [c \in Cells(m) |-> c[1]], grid_y |-> [c \in Cells(m) |-> c[2]]]

\* maps.sum(3).sum(2)
MapSumsFirstRow(m) == SumOver(m.a, {c \in Cells(m) : c[1] = 0})
MapSums(m) == SumOver(m.a, Cells(m))

\* (grid * maps).sum(3).sum(2)
WeightedSum(grid, m) == SumOver([c \in Cells(m) |-> grid[c] * m.a[c]], Cells(m))

\* lines 41-51: the whole function; it has no raising path
LandmarkCoordinates ==
    /\ lm.pc = "start"
    /\ LET g == Meshgrid(maps)
           map_sums == MapSums(maps)
           maps_x == WeightedSum(g.grid_x, maps)
           maps_y == WeightedSum(g.grid_y, maps)
       IN lm' = [pc |-> "returned",
                 loc_x |-> TorchDiv(maps_x, map_sums),
                 loc_y |-> TorchDiv(maps_y, map_sums),
                 grid_x |-> g.grid_x, grid_y |-> g.grid_y]
    /\ UNCHANGED <<maps, tripletVars, rigidVars, datasetVars>>

LmStart == [pc |-> "start", loc_x |-> NaN, loc_y |-> NaN,
            grid_x |-> <<>>, grid_y |-> <<>>]

LandmarkInit ==
    /\ \E n2 \in 1..MaxDim, n3 \in 1..MaxDim : maps \in MapsOfShape(n2, n3)
    /\ lm = LmStart
    /\ TripletOff
    /\ RigidOff
    /\ CubOff
    /\ WhaleOff

LandmarkNext == LandmarkCoordinates

SpecLandmark == LandmarkInit /\ [][LandmarkNext]_vars

----------------------------------------------------------------------------
(* rigid_transform (lib.py) over torchvision's affine *)

\* side of the square image
ImgSize == 3

\* largest translation along an axis, besides the spec's (10, -5)
MaxShift == 1

shear == 0

\* rotations by quarter turns, for which torchvision's resampling lands on
\* whole and half pixels and integer arithmetic reproduces it; the sine and
\* cosine of any other angle (45 degrees among them) are irrational, and the
\* float32 image affine returns for it is not represented
Angles == {0, 90, -90, 180}

\* scale as <<numerator, denominator>>: 0.5, 1, 2
Scales == {<<1, 2>>, <<1, 1>>, <<2, 1>>}

Translates == ((-MaxShift..MaxShift) \X (-MaxShift..MaxShift)) \cup {<<10, -5>>}

Pixels == (0..(ImgSize - 1)) \X (0..(ImgSize - 1))

\* pixel values are fixed point with 4 fractional bits (16 is 1.0)
Ramp == [p \in Pixels |-> 16 * (p[1] * ImgSize + p[2] + 1)]
Dot == [p \in Pixels |->
          IF p = <<ImgSize \div 2, ImgSize \div 2>> THEN 16 ELSE 0]
Images == {Ramp, Dot}

\* math.cos and math.sin of math.radians(a) for a quarter turn
Cos(a) == IF a = 0 THEN 1 ELSE IF a = 180 \/ a = -180 THEN -1 ELSE 0
Sin(a) == IF a = 90 THEN 1 ELSE IF a = -90 THEN -1 ELSE 0

\* Coordinates are <<x, y>> in quarter pixels relative to the image centre:
\* the centre of pixel (row i, column j) is <<4j + 2 - 2N, 4i + 2 - 2N>>.
Centre(p) == <<4 * p[2] + 2 - 2 * ImgSize, 4 * p[1] + 2 - 2 * ImgSize>>

\* torchvision's inverse affine matrix (centre 0, shear 0) applied to an
\* output coordinate: the input coordinate sampled there,
\* [[cos, sin], [-sin, cos]] / scale * (c - translate).
\* A pixel centre less a whole-pixel translation is an even number of
\* quarter pixels, so the division by the scale's numerator (1 or 2) is
\* exact.
SourceCoord(c, call) ==
    LET x == c[1] - 4 * call.translate[1]
        y == c[2] - 4 * call.translate[2]
        co == Cos(call.angle)
        si == Sin(call.angle)
        sn == call.scale[1]
        sd == call.scale[2]
    IN <<((co * x + si * y) * sd) \div sn, ((co * y - si * x) * sd) \div sn>>

\* the value of pixel (row, column), zero outside the image (padding zeros)
Pix(im, row, col) == IF <<row, col>> \in Pixels THEN im[<<row, col>>] ELSE 0

\* grid_sample, mode nearest: nearbyint of the source index, ties to even
NearestIdx(i4) ==
    LET q == i4 \div 4
        r == i4 % 4
    IN IF r < 2 THEN q
       ELSE IF r > 2 THEN q + 1
       ELSE IF q % 2 = 0 THEN q ELSE q + 1

\* grid_sample, mode bilinear, of the source index <<x4, y4>> in quarter
\* pixels: the four neighbours weighted by their distance
Bilinear(im, x4, y4) ==
    LET x0 == x4 \div 4
        fx == x4 % 4
        y0 == y4 \div 4
        fy == y4 % 4
    IN ((4 - fx) * (4 - fy) * Pix(im, y0, x0)
        + fx * (4 - fy) * Pix(im, y0, x0 + 1)
        + (4 - fx) * fy * Pix(im, y0 + 1, x0)
        + fx * fy * Pix(im, y0 + 1, x0 + 1)) \div 16

\* visionF.affine(img, angle, translate, scale, shear, interpolation):
\* every output pixel samples the input at its source coordinate
Affine(im, call) ==
    [p \in Pixels |->
        LET s == SourceCoord(Centre(p), call)
            x4 == s[1] + 2 * ImgSize - 2
            y4 == s[2] + 2 * ImgSize - 2
        IN IF call.interpolation = "bilinear"
           THEN Bilinear(im, x4, y4)
           ELSE Pix(im, NearestIdx(y4), NearestIdx(x4))]

\* line 78: the one affine call of the forward transform
ForwardCall(angle, translate, scale) ==
    [angle |-> angle, translate |-> translate, scale |-> scale,
     shear |-> shear, interpolation |-> "bilinear"]

\* lines 81-83: the two affine calls of the inverse transform, in order;
\* affine's default interpolation is nearest
InvertCallsRotateFirst(angle, translate, scale) ==
    <<[angle |-> -angle, translate |-> <<0, 0>>,
       scale |-> <<scale[2], scale[1]>>, shear |-> shear,
       interpolation |-> "nearest"],
      [angle |-> 0, translate |-> <<-translate[1], -translate[2]>>,
       scale |-> <<1, 1>>, shear |-> shear, interpolation |-> "nearest"]>>
InvertCalls(angle, translate, scale) ==
    <<[angle |-> 0, translate |-> <<-translate[1], -translate[2]>>,
       scale |-> <<1, 1>>, shear |-> shear, interpolation |-> "nearest"],
      [angle |-> -angle, translate |-> <<0, 0>>,
       scale |-> <<scale[2], scale[1]>>, shear |-> shear,
       interpolation |-> "nearest"]>>

\* lines 77-79: rigid_transform(img, angle, translate, scale, invert=False)
RigidForward ==
    /\ rt.pc = "start"
    /\ LET call == ForwardCall(rt.angle, rt.translate, rt.scale)
       IN /\ img' = Affine(img, call)
          /\ rt' = [rt EXCEPT !.pc = "forwarded", !.fwd = TRUE,
                              !.calls = Append(@, call)]
    /\ UNCHANGED <<tripletVars, landmarkVars, datasetVars>>

\* lines 81-82 of rigid_transform(img, angle, translate, scale, invert=True),
\* called on the original image or on the forward transform's result
InvertTranslate ==
    /\ rt.pc \in {"start", "forwarded"}
    /\ LET call == InvertCalls(rt.angle, rt.translate, rt.scale)[1]
       IN /\ img' = Affine(img, call)
          /\ rt' = [rt EXCEPT !.pc = "untranslated",
                              !.calls = Append(@, call),
                              !.inverted = <<call>>]
    /\ UNCHANGED <<tripletVars, landmarkVars, datasetVars>>

\* lines 83-84
InvertRotateScale ==
    /\ rt.pc = "untranslated"
    /\ LET call == InvertCalls(rt.angle, rt.translate, rt.scale)[2]
       IN /\ img' = Affine(img, call)
          /\ rt' = [rt EXCEPT !.pc = "done",
                              !.calls = Append(@, call),
                              !.inverted = Append(@, call)]
    /\ UNCHANGED <<tripletVars, landmarkVars, datasetVars>>

RigidInit ==
    /\ img \in Images
    /\ \E a \in Angles, t \in Translates, sc \in Scales :
          rt = [pc |-> "start", fwd |-> FALSE, angle |-> a, translate |-> t,
                scale |-> sc, orig |-> img, calls |-> <<>>,
                inverted |-> <<>>]
    /\ TripletOff
    /\ LandmarkOff
    /\ CubOff
    /\ WhaleOff

RigidNext ==
    \/ RigidForward
    \/ InvertTranslate
    \/ InvertRotateScale

SpecRigid == RigidInit /\ [][RigidNext]_vars

----------------------------------------------------------------------------
(* WhaleDataset *)

\* len(self.labels)
DatasetLen(labs) == Cardinality(DOMAIN labs)

\* the last axis of the array imread decodes: 3 (RGB), 4 (RGBA), or 0 for
\* a 2-D array (one grey plane)
MixedChannels == <<4, 0, 3>>

\* lines 83-84: no file of the sample's name under alt_data_path, or
\* alt_data_path is None
NoFile == -1
MixedAlt == <<NoFile, 0, 3>>

\* per sample the file under data_path/train and the one under
\* alt_data_path: every file RGB and no alternative (PlainFiles); mixed
\* files without or with alternatives
PlainFiles(labs) == [i \in DOMAIN labs |-> [train |-> 3, alt |-> NoFile]]
ChannelLayouts(labs) ==
    {[i \in DOMAIN labs |->
         [train |-> MixedChannels[(i % 3) + 1], alt |-> NoFile]],
     [i \in DOMAIN labs |->
         [train |-> MixedChannels[(i % 3) + 1],
          alt |-> MixedAlt[(i % 3) + 1]]]}

\* lines 83-84: the alternative file is the one read
AltUsed(fls, idx) == fls[idx].alt # NoFile

\* lines 85-89: the array imread decodes (its last axis, 0 for 2-D)
Decoded(fls, idx) ==
    IF AltUsed(fls, idx) THEN fls[idx].alt ELSE fls[idx].train

\* line 86: np.flip(im, 2) raises AxisError on a 2-D array
FlipRaises(fls, idx) == AltUsed(fls, idx) /\ Decoded(fls, idx) = 0

\* lines 93-94: only a 2-D array is stacked to 3 channels
Channels(c) == IF c = 0 THEN 3 ELSE c

\* what WhaleDataset.__getitem__ returns for idx when line 86 does not
\* raise: line 90 reads self.height twice, h_rows for the rows and h_cols
\* for the columns, and resizes the image of sample idx to
\* (h_rows, 2 * h_cols); channel first, with its label; flipped tells that
\* the alternative file was read and its last axis reversed
GetItem(labs, fls, idx, h_rows, h_cols) ==
    [im |-> [src |-> idx, flipped |-> AltUsed(fls, idx),
             chan |-> Channels(Decoded(fls, idx)), rows |-> h_rows,
             cols |-> h_cols * 2],
     label |-> labs[idx]]

NoImage == [src |-> -1, flipped |-> FALSE, chan |-> 0, rows |-> 0, cols |-> 0]

----------------------------------------------------------------------------
(* WhaleTripletDataset.__getitem__ *)

\* the entry of height_list written to orig_dataset.height before the
\* fetch of role k (0 anchor, 1 positive, 2 negative)
RoleHeightAnchorOnly(hl, k) == hl[1]
RoleHeight(hl, k) == hl[k + 1]

\* np.where(self.orig_dataset.labels == lab)[0]
PositiveOptsFirstOnly(labs, lab) ==
    {i \in DOMAIN labs : labs[i] = lab /\ \A j \in DOMAIN labs : j < i => labs[j] # lab}
PositiveOptsFresh(labs, lab) ==
    {i \in DOMAIN labs : labs[i] = lab /\ \A k \in DOMAIN history.calls : history.calls[k][2] # i}
PositiveOpts(labs, lab) == {i \in DOMAIN labs : labs[i] = lab}

\* np.where(self.orig_dataset.labels != lab)[0]
NegativeOptsSameLabel(labs, lab) == {i \in DOMAIN labs : labs[i] = lab}
NegativeOptsOrAll(labs, lab) ==
    IF \E i \in DOMAIN labs : labs[i] # lab
    THEN {i \in DOMAIN labs : labs[i] # lab}
    ELSE DOMAIN labs
NegativeOpts(labs, lab) == {i \in DOMAIN labs : labs[i] # lab}

Range(q) == {q[k] : k \in DOMAIN q}

\* opts as the ascending array np.where returns
RECURSIVE SortedSeq(_)
SortedSeq(S) ==
    IF S = {} THEN <<>>
    ELSE LET m == CHOOSE x \in S : \A y \in S : x <= y
         IN <<m>> \o SortedSeq(S \ {m})

\* np.random.randint(n): a value of 0..n-1; raises ValueError when n <= 0
RandIntFromOne(n) == 1..(n - 1)
RandInt(n) == 0..(n - 1)
RandIntRaises(n) == n <= 0

\* opts[k] of a numpy array (0-based)
At(opts, k) == opts[k + 1]

\* a caller's locals; opts_pos and opts_neg are the two values of opts
\* (lines 122 and 124), trace lists the call's height writes and fetches
\* in order, height_read is the first of the two values of self.height
\* that line 90 reads during a fetch (-1 outside it), raised_at the line of
\* WhaleTripletDataset.__getitem__ an error came out of
Idle == [pc |-> "idle", idx |-> -1, lab |-> -1, positive_idx |-> -1,
         negative_idx |-> -1, im |-> NoImage, im_pos |-> NoImage,
         im_neg |-> NoImage, lab_neg |-> -1, error |-> "none",
         opts_pos |-> <<>>, opts_neg |-> <<>>, trace |-> <<>>,
         height_read |-> -1, raised_at |-> 0]

\* the sample the fetch of line 121, 128 or 130 asks for
FetchIndex(f) ==
    CASE f.pc = "l121" -> f.idx
      [] f.pc = "l128" -> f.positive_idx
      [] f.pc = "l130" -> f.negative_idx

FetchLine(f) ==
    CASE f.pc = "l121" -> 121
      [] f.pc = "l128" -> 128
      [] f.pc = "l130" -> 130

HeightWrite(h) == [op |-> "height", arg |-> h]
Fetch(i) == [op |-> "fetch", arg |-> i]

Callers == DOMAIN frame

\* line 118: a caller enters __getitem__(i) and writes height_list[0]
SetAnchorHeight(w, i) ==
    /\ frame[w].pc \in {"idle", "returned", "raised"}
    /\ i \in DOMAIN labels
    /\ history.on => Len(history.calls) < MaxCalls
    /\ height' = RoleHeight(height_list, 0)
    /\ frame' = [frame EXCEPT ![w] =
                    [Idle EXCEPT !.pc = "l121", !.idx = i,
                                 !.trace = <<HeightWrite(height')>>]]
    /\ history' = IF history.on
                  THEN [history EXCEPT !.entry_height = height]
                  ELSE history
    /\ UNCHANGED <<labels, files, height_list, landmarkVars, rigidVars,
                   datasetVars>>

\* WhaleDataset.__getitem__ lines 83-90 in the fetch of line 121, 128 or
\* 130: the file is read, an alternative file flipped (AxisError on a 2-D
\* one, which ends the call), then self.height is read for the first time
LoadHeight(w) ==
    /\ frame[w].pc \in {"l121", "l128", "l130"}
    /\ frame[w].height_read = -1
    /\ IF FlipRaises(files, FetchIndex(frame[w]))
       THEN frame' = [frame EXCEPT ![w].pc = "raised",
                                   ![w].error = "AxisError",
                                   ![w].raised_at = FetchLine(frame[w])]
       ELSE frame' = [frame EXCEPT ![w].height_read = height]
    /\ UNCHANGED <<labels, files, height, height_list, history, landmarkVars,
                   rigidVars, datasetVars>>

\* line 121: im, lab = self.orig_dataset[idx], from the second read of
\* self.height on
FetchAnchor(w) ==
    /\ frame[w].pc = "l121"
    /\ frame[w].height_read # -1
    /\ LET got == GetItem(labels, files, frame[w].idx, frame[w].height_read,
                          height)
       IN frame' = [frame EXCEPT ![w].pc = "l122", ![w].im = got.im,
                                 ![w].lab = got.label,
                                 ![w].height_read = -1,
                                 ![w].trace = Append(@, Fetch(frame[w].idx))]
    /\ UNCHANGED <<labels, files, height, height_list, history, landmarkVars,
                   rigidVars, datasetVars>>

\* lines 122-123: the positive draw
DrawPositive(w) ==
    /\ frame[w].pc = "l122"
    /\ LET opts == SortedSeq(PositiveOpts(labels, frame[w].lab))
       IN IF RandIntRaises(Len(opts))
          THEN frame' = [frame EXCEPT ![w].pc = "raised",
                                      ![w].opts_pos = opts,
                                      ![w].raised_at = 123,
                                      ![w].error = "ValueError"]
          ELSE \E k \in RandInt(Len(opts)) :
                 frame' = [frame EXCEPT ![w].pc = "l124",
                                        ![w].opts_pos = opts,
                                        ![w].positive_idx = At(opts, k)]
    /\ UNCHANGED <<labels, files, height, height_list, history, landmarkVars,
                   rigidVars, datasetVars>>

\* lines 124-125: the negative draw; randint(0) raises out of __getitem__
DrawNegativeRestoring(w) ==
    /\ frame[w].pc = "l124"
    /\ LET opts == SortedSeq(NegativeOpts(labels, frame[w].lab))
       IN IF RandIntRaises(Len(opts))
          THEN /\ frame' = [frame EXCEPT ![w].pc = "raised",
                                         ![w].opts_neg = opts,
                                         ![w].raised_at = 125,
                                         ![w].error = "ValueError"]
               /\ height' = history.entry_height
          ELSE /\ \E k \in RandInt(Len(opts)) :
                    frame' = [frame EXCEPT ![w].pc = "l126",
                                           ![w].opts_neg = opts,
                                           ![w].negative_idx = At(opts, k)]
               /\ height' = height
    /\ UNCHANGED <<labels, files, height_list, history, landmarkVars, rigidVars, datasetVars>>
DrawNegative(w) ==
    /\ frame[w].pc = "l124"
    /\ LET opts == SortedSeq(NegativeOpts(labels, frame[w].lab))
       IN IF RandIntRaises(Len(opts))
          THEN frame' = [frame EXCEPT ![w].pc = "raised",
                                      ![w].opts_neg = opts,
                                      ![w].raised_at = 125,
                                      ![w].error = "ValueError"]
          ELSE \E k \in RandInt(Len(opts)) :
                 frame' = [frame EXCEPT ![w].pc = "l126",
                                        ![w].opts_neg = opts,
                                        ![w].negative_idx = At(opts, k)]
    /\ UNCHANGED <<labels, files, height, height_list, history, landmarkVars,
                   rigidVars, datasetVars>>

\* line 126: self.orig_dataset.height = self.height_list[1]
SetPositiveHeight(w) ==
    /\ frame[w].pc = "l126"
    /\ height' = RoleHeight(height_list, 1)
    /\ frame' = [frame EXCEPT ![w].pc = "l128",
                              ![w].trace = Append(@, HeightWrite(height'))]
    /\ UNCHANGED <<labels, files, height_list, history, landmarkVars, rigidVars, datasetVars>>

\* line 128: im_pos, _ = self.orig_dataset[positive_idx]
FetchPositive(w) ==
    /\ frame[w].pc = "l128"
    /\ frame[w].height_read # -1
    /\ LET got == GetItem(labels, files, frame[w].positive_idx,
                          frame[w].height_read, height)
       IN frame' = [frame EXCEPT ![w].pc = "l129", ![w].im_pos = got.im,
                        ![w].height_read = -1,
                        ![w].trace = Append(@, Fetch(frame[w].positive_idx))]
    /\ UNCHANGED <<labels, files, height, height_list, history, landmarkVars,
                   rigidVars, datasetVars>>

\* line 129: self.orig_dataset.height = self.height_list[2]
SetNegativeHeightSkipped(w) ==
    /\ frame[w].pc = "l129"
    /\ frame' = [frame EXCEPT ![w].pc = "l130"]
    /\ UNCHANGED <<labels, files, height, height_list, history, landmarkVars,
                   rigidVars, datasetVars>>
SetNegativeHeight(w) ==
    /\ frame[w].pc = "l129"
    /\ height' = RoleHeight(height_list, 2)
    /\ frame' = [frame EXCEPT ![w].pc = "l130",
                              ![w].trace = Append(@, HeightWrite(height'))]
    /\ UNCHANGED <<labels, files, height_list, history, landmarkVars, rigidVars, datasetVars>>

\* lines 130-131: im_neg, lab_neg = self.orig_dataset[negative_idx]; return
FetchNegative(w) ==
    /\ frame[w].pc = "l130"
    /\ frame[w].height_read # -1
    /\ LET got == GetItem(labels, files, frame[w].negative_idx,
                          frame[w].height_read, height)
       IN frame' = [frame EXCEPT ![w].pc = "returned", ![w].im_neg = got.im,
                        ![w].height_read = -1,
                        ![w].lab_neg = got.label,
                        ![w].trace = Append(@, Fetch(frame[w].negative_idx))]
    /\ history' = IF history.on
                  THEN [history EXCEPT !.calls =
                           Append(@, <<frame[w].idx, frame[w].positive_idx>>)]
                  ELSE history
    /\ UNCHANGED <<labels, files, height, height_list, landmarkVars, rigidVars, datasetVars>>

TripletNext ==
    \/ \E w \in Callers : \E i \in DOMAIN labels : SetAnchorHeight(w, i)
    \/ \E w \in Callers : LoadHeight(w)
    \/ \E w \in Callers : FetchAnchor(w)
    \/ \E w \in Callers : DrawPositive(w)
    \/ \E w \in Callers : DrawNegative(w)
    \/ \E w \in Callers : SetPositiveHeight(w)
    \/ \E w \in Callers : FetchPositive(w)
    \/ \E w \in Callers : SetNegativeHeight(w)
    \/ \E w \in Callers : FetchNegative(w)

\* one caller: every call runs to its end before the next begins
TripletInit ==
    /\ labels \in LabelVectors(MaxLen)
    /\ height \in InitHeights
    /\ height_list \in HeightLists
    /\ frame = [w \in {1} |-> Idle]
    /\ files \in ChannelLayouts(labels)
    /\ history = [on |-> FALSE, labels0 |-> <<>>, entry_height |-> 0,
                 calls |-> <<>>]
    /\ LandmarkOff
    /\ RigidOff
    /\ CubOff
    /\ WhaleOff

SpecTriplet == TripletInit /\ [][TripletNext]_vars

\* lines 109-110: height_list when the caller gives none
DefaultHeightList == <<256, 256, 256>>

\* one caller making up to MaxCalls calls on a triplet dataset with the
\* default height list and two labels; the (anchor, positive) indices of
\* the returned triples are recorded in order, and the height each call
\* found at its entry
HistoryLabelVectors ==
    UNION {[0..(len - 1) -> {0, 1}] : len \in 1..MaxLenHist}

HistoryInit ==
    /\ labels \in HistoryLabelVectors
    /\ height \in InitHeights
    /\ height_list = DefaultHeightList
    /\ frame = [w \in {1} |-> Idle]
    /\ files \in ChannelLayouts(labels)
    /\ history = [on |-> TRUE, labels0 |-> labels, entry_height |-> height,
                  calls |-> <<>>]
    /\ LandmarkOff
    /\ RigidOff
    /\ CubOff
    /\ WhaleOff

SpecHistory == HistoryInit /\ [][TripletNext]_vars

\* two callers (threads sharing one dataset object, RGB files) interleave
\* statement by statement, and between the two reads of self.height that
\* line 90 makes within a fetch
ConcInit ==
    /\ labels \in LabelVectors(MaxLenConc)
    /\ height \in InitHeights
    /\ height_list \in HeightLists
    /\ frame = [w \in {1, 2} |-> Idle]
    /\ files = PlainFiles(labels)
    /\ history = [on |-> FALSE, labels0 |-> <<>>, entry_height |-> 0,
                 calls |-> <<>>]
    /\ LandmarkOff
    /\ RigidOff
    /\ CubOff
    /\ WhaleOff

SpecConc == ConcInit /\ [][TripletNext]_vars

----------------------------------------------------------------------------
(* Properties of the triplet sampler *)

ExampleLabels == [i \in 0..4 |-> IF i < 2 THEN 0 ELSE IF i < 4 THEN 1 ELSE 2]

AllSameLabel == \A i, j \in DOMAIN labels : labels[i] = labels[j]

\* C1: in every call, once drawn, the positive index carries the anchor's
\* label and the negative index a different one; a returned call hands back
\* the anchor's label and, as negative label, the label of that negative
\* index.
C1_TripletLabels ==
    \A w \in Callers :
        LET f == frame[w] IN
        /\ f.positive_idx # -1 =>
              /\ f.positive_idx \in DOMAIN labels
              /\ labels[f.positive_idx] = labels[f.idx]
        /\ f.negative_idx # -1 =>
              /\ f.negative_idx \in DOMAIN labels
              /\ labels[f.negative_idx] # labels[f.idx]
        /\ f.pc = "returned" =>
              /\ f.positive_idx # -1 /\ f.negative_idx # -1
              /\ f.lab = labels[f.idx]
              /\ f.lab_neg = labels[f.negative_idx]
              /\ f.lab_neg # f.lab

\* C1 witness: on [0,0,1,1,2] a call with anchor 0 returned positive 1 and
\* negative 4.
C1_Witness ==
    /\ labels = ExampleLabels
    /\ \E w \in Callers :
          /\ frame[w].pc = "returned"
          /\ frame[w].idx = 0
          /\ frame[w].positive_idx = 1
          /\ frame[w].negative_idx = 4
          /\ frame[w].lab_neg = 2

\* C2: whatever the interleaving of the callers, every image a call has
\* fetched so far was rendered at the height_list entry of its own role.
C2_ConcurrentRoleResolutions ==
    \A w \in Callers :
        LET f == frame[w] IN
        /\ f.im # NoImage =>
              f.im.rows = height_list[1] /\ f.im.cols = 2 * height_list[1]
        /\ f.im_pos # NoImage =>
              f.im_pos.rows = height_list[2] /\ f.im_pos.cols = 2 * height_list[2]
        /\ f.im_neg # NoImage =>
              f.im_neg.rows = height_list[3] /\ f.im_neg.cols = 2 * height_list[3]

\* C3: when every sample carries the same label, no call gets past the
\* negative draw: at line 125 randint is bound to raise, the call ends
\* raised with a ValueError (unless the anchor fetch of line 121 already
\* raised), and no negative index or image is ever set.
C3_SingleLabelRaises ==
    AllSameLabel =>
        \A w \in Callers :
            LET f == frame[w] IN
            /\ f.pc \in {"idle", "l121", "l122", "l124", "raised"}
            /\ f.negative_idx = -1
            /\ f.im_neg = NoImage
            /\ f.lab_neg = -1
            /\ f.pc = "l124" =>
                  RandIntRaises(Cardinality(NegativeOpts(labels, f.lab)))
            /\ f.pc = "raised" =>
                  /\ f.raised_at \in {121, 125}
                  /\ f.error = IF f.raised_at = 125 THEN "ValueError"
                               ELSE "AxisError"

\* C3 witness: on three samples of one label a call has raised.
C3_Witness ==
    /\ AllSameLabel
    /\ DatasetLen(labels) = 3
    /\ \E w \in Callers :
          /\ frame[w].pc = "raised"
          /\ frame[w].idx = 2
          /\ frame[w].error = "ValueError"

\* C4: a call that runs alone returns the anchor rendered at height_list[0],
\* the positive at height_list[1] and the negative at height_list[2] (each
\* of shape (c, h, 2h), c the channels of its file, 3 for a grey one), each
\* the image of its own index.
C4_RoleResolutions ==
    \A w \in Callers :
        LET f == frame[w] IN
        f.pc = "returned" =>
            /\ f.im = [src |-> f.idx, flipped |-> AltUsed(files, f.idx),
                       chan |-> Channels(Decoded(files, f.idx)),
                       rows |-> height_list[1],
                       cols |-> 2 * height_list[1]]
            /\ f.im_pos = [src |-> f.positive_idx,
                           flipped |-> AltUsed(files, f.positive_idx),
                           chan |-> Channels(Decoded(files, f.positive_idx)),
                           rows |-> height_list[2],
                           cols |-> 2 * height_list[2]]
            /\ f.im_neg = [src |-> f.negative_idx,
                           flipped |-> AltUsed(files, f.negative_idx),
                           chan |-> Channels(Decoded(files, f.negative_idx)),
                           rows |-> height_list[3],
                           cols |-> 2 * height_list[3]]

\* C4 witness: with height list [32,64,128] a call returned images of
\* heights 32, 64 and 128.
C4_Witness ==
    /\ height_list = <<32, 64, 128>>
    /\ \E w \in Callers :
          /\ frame[w].pc = "returned"
          /\ frame[w].im.rows = 32
          /\ frame[w].im_pos.rows = 64
          /\ frame[w].im_neg.rows = 128

----------------------------------------------------------------------------
(* Properties of landmark_coordinates *)

Mass == MapSums(maps)

\* the whole mass of the map lies on cell (r0, c0)
PeakAt(r0, c0) ==
    /\ <<r0, c0>> \in Cells(maps)
    /\ maps.a[<<r0, c0>>] > 0
    /\ \A c \in Cells(maps) : c # <<r0, c0>> => maps.a[c] = 0

Uniform ==
    /\ \A c, d \in Cells(maps) : maps.a[c] = maps.a[d]
    /\ \A c \in Cells(maps) : maps.a[c] > 0

\* a < b for a finite fraction a and an integer b
FracLess(a, b) == a.num < b * a.den

\* C5 as stated: a map of shape (H, W) with all its mass on row r0, column
\* c0 gives loc_x = c0 and loc_y = r0.
C5_PeakColumnIsLocX ==
    lm.pc = "returned" =>
        \A c \in Cells(maps) :
            PeakAt(c[1], c[2]) =>
                /\ lm.loc_x = Frac(c[2], 1)
                /\ lm.loc_y = Frac(c[1], 1)

\* C5 amended: a map with all its mass on the cell of index r0 along dim 2
\* and c0 along dim 3 gives loc_x = r0 and loc_y = c0.
C5_PeakRowIsLocX ==
    lm.pc = "returned" =>
        \A c \in Cells(maps) :
            PeakAt(c[1], c[2]) =>
                /\ lm.loc_x = Frac(c[1], 1)
                /\ lm.loc_y = Frac(c[2], 1)

\* C5 witness: a non-square map with its mass on a cell whose two indices
\* differ has been processed.
C5_Witness ==
    /\ lm.pc = "returned"
    /\ maps.shape2 # maps.shape3
    /\ PeakAt(0, 1)
    /\ lm.loc_x = Frac(0, 1)
    /\ lm.loc_y = Frac(1, 1)

\* C6: landmark_coordinates never returns coordinates for a map of total
\* mass zero (it fails instead).
C6_ZeroMassFails == lm.pc = "returned" => Mass # 0

\* C7 as stated: for nonzero mass, 0 <= loc_x < W and 0 <= loc_y < H for a
\* map of H rows (dim 2) and W columns (dim 3).
C7_WithinWidthHeight ==
    (lm.pc = "returned" /\ Mass # 0) =>
        /\ lm.loc_x.den > 0 /\ lm.loc_y.den > 0
        /\ 0 <= lm.loc_x.num /\ FracLess(lm.loc_x, maps.shape3)
        /\ 0 <= lm.loc_y.num /\ FracLess(lm.loc_y, maps.shape2)

\* C7 amended: for nonzero mass, 0 <= loc_x < shape[2] and
\* 0 <= loc_y < shape[3]: each coordinate lies within the extent of the
\* axis it is measured along (loc_x along dim 2, loc_y along dim 3).
C7_WithinOwnAxis ==
    (lm.pc = "returned" /\ Mass # 0) =>
        /\ lm.loc_x.den > 0 /\ lm.loc_y.den > 0
        /\ 0 <= lm.loc_x.num /\ FracLess(lm.loc_x, maps.shape2)
        /\ 0 <= lm.loc_y.num /\ FracLess(lm.loc_y, maps.shape3)

\* C7 witness: a non-square map whose mass is spread over several cells gave
\* a centroid on the last index of its longer axis' side.
C7_Witness ==
    /\ lm.pc = "returned"
    /\ maps.shape2 > maps.shape3
    /\ Mass > 1
    /\ lm.loc_x = Frac(maps.shape2 - 1, 1)

\* C8 as stated: uniform positive mass gives loc_x = (W-1)/2 and
\* loc_y = (H-1)/2 for a map of H rows (dim 2) and W columns (dim 3).
C8_UniformCenterXIsWidth ==
    (lm.pc = "returned" /\ Uniform) =>
        /\ lm.loc_x = Frac(maps.shape3 - 1, 2)
        /\ lm.loc_y = Frac(maps.shape2 - 1, 2)

\* C8 amended: uniform positive mass gives loc_x = (shape[2]-1)/2 and
\* loc_y = (shape[3]-1)/2.
C8_UniformCenterOwnAxis ==
    (lm.pc = "returned" /\ Uniform) =>
        /\ lm.loc_x = Frac(maps.shape2 - 1, 2)
        /\ lm.loc_y = Frac(maps.shape3 - 1, 2)

\* C8 witness: a uniform non-square map has been processed.
C8_Witness ==
    /\ lm.pc = "returned"
    /\ Uniform
    /\ maps.shape2 = 1
    /\ maps.shape3 = 2
    /\ lm.loc_y = Frac(1, 2)

----------------------------------------------------------------------------
(* Properties of rigid_transform *)

CallParams(c) == <<c.angle, c.translate, c.scale, c.shear>>

\* C9: the inverse transform makes exactly two affine calls, in this order:
\* first (angle 0, -translate, scale 1, shear 0), then (-angle, (0,0),
\* 1/scale, shear 0); nothing of the inverse runs before the first.
C9_InvertOrder ==
    LET first == <<0, <<-rt.translate[1], -rt.translate[2]>>, <<1, 1>>, 0>>
        second == <<-rt.angle, <<0, 0>>, <<rt.scale[2], rt.scale[1]>>, 0>>
    IN /\ rt.pc \in {"start", "forwarded"} => rt.inverted = <<>>
       /\ rt.pc = "untranslated" =>
             /\ Len(rt.inverted) = 1
             /\ CallParams(rt.inverted[1]) = first
       /\ rt.pc = "done" =>
             /\ Len(rt.inverted) = 2
             /\ CallParams(rt.inverted[1]) = first
             /\ CallParams(rt.inverted[2]) = second

\* C9 witness: an inverse with a rotation, a translation and a scale, for
\* which the two orders and the all-negated single call differ, is done.
C9_Witness ==
    /\ rt.pc = "done"
    /\ rt.angle = -90
    /\ rt.translate = <<1, -1>>
    /\ rt.scale = <<2, 1>>
    /\ CallParams(rt.inverted[1]) = <<0, <<-1, 1>>, <<1, 1>>, 0>>
    /\ CallParams(rt.inverted[2]) = <<90, <<0, 0>>, <<1, 2>>, 0>>

RoundTripDone == rt.pc = "done" /\ rt.fwd

\* the parameters C10 names, less the angle 45, which Angles leaves out
RoundTripAngles == {0, -90}
RoundTripTranslates == {<<0, 0>>, <<10, -5>>}

\* the pixels at most one row and one column away from p
Near(p) ==
    {q \in Pixels : Abs(q[1] - p[1]) <= 1 /\ Abs(q[2] - p[2]) <= 1}

\* "up to interpolation error": bilinear and nearest resampling return a
\* weighted mean of the pixels next to the sampled position, so a pixel
\* sampled from its own position comes back between the least and the
\* greatest original value among itself and its neighbours
WithinInterpolation(p) ==
    /\ \E q \in Near(p) : rt.orig[q] <= img[p]
    /\ \E q \in Near(p) : img[p] <= rt.orig[q]

\* C10: after rigid_transform(rigid_transform(image, p, invert=False), p,
\* invert=True) with angle in {0, 45, -90}, scale in {0.5, 1, 2} and
\* translate in {(0,0), (10,-5)}, every pixel of the result holds its
\* original value up to interpolation error; stated here for the angles 0
\* and -90 of the three.
C10_RoundTripRestoresImage ==
    (/\ RoundTripDone
     /\ rt.angle \in RoundTripAngles
     /\ rt.scale \in Scales
     /\ rt.translate \in RoundTripTranslates) =>
        \A p \in Pixels : WithinInterpolation(p)

WithLabel(L) == {i \in DOMAIN labels : labels[i] = L}
WithoutLabel(L) == {i \in DOMAIN labels : labels[i] # L}

PositiveDrawn(f) ==
    \/ f.pc \in {"l124", "l126", "l128", "l129", "l130", "returned"}
    \/ f.pc = "raised" /\ f.raised_at > 123
NegativeComputed(f) ==
    \/ f.pc \in {"l126", "l128", "l129", "l130", "returned"}
    \/ f.pc = "raised" /\ f.raised_at >= 125

\* C11: for an anchor of label L the positive candidates computed at line 122
\* are exactly the indices whose label is L (never none), the negative
\* candidates computed at line 124 exactly the indices whose label is not L;
\* the two sets are disjoint and together are every index of the dataset.
\* With labels [0,0,1,1,2] label 0 gives {0,1}, label 1 {2,3}, label 2 {4}.
C11_CandidateSets ==
    \A w \in Callers :
        LET f == frame[w]
            L == labels[f.idx]
        IN
        /\ PositiveDrawn(f) \/ NegativeComputed(f) =>
              /\ Range(f.opts_pos) = WithLabel(L)
              /\ Len(f.opts_pos) = Cardinality(WithLabel(L))
              /\ f.opts_pos # <<>>
              /\ labels = ExampleLabels =>
                    f.opts_pos = CASE L = 0 -> <<0, 1>>
                                   [] L = 1 -> <<2, 3>>
                                   [] L = 2 -> <<4>>
        /\ NegativeComputed(f) =>
              /\ Range(f.opts_neg) = WithoutLabel(L)
              /\ Len(f.opts_neg) = Cardinality(WithoutLabel(L))
              /\ Range(f.opts_pos) \cap Range(f.opts_neg) = {}
              /\ Range(f.opts_pos) \cup Range(f.opts_neg) = DOMAIN labels

\* C11 witness: on labels [0,0,1,1,2] a call with anchor 2 has computed the
\* positive candidates [2,3] and the negative candidates [0,1,4].
C11_Witness ==
    /\ labels = ExampleLabels
    /\ \E w \in Callers :
          /\ frame[w].idx = 2
          /\ frame[w].opts_pos = <<2, 3>>
          /\ frame[w].opts_neg = <<0, 1, 4>>

\* C12: for every valid anchor the positive candidates of line 122 contain
\* the anchor itself, so the draw of line 123 never raises; each candidate,
\* the anchor included, is a possible result of the draw, and the drawn
\* index is always one of the candidates.
C12_AnchorIsPositiveCandidate ==
    \A w \in Callers :
        LET f == frame[w] IN
        /\ f.pc = "l122" =>
              /\ f.idx \in WithLabel(f.lab)
              /\ \A j \in WithLabel(f.lab) :
                    ENABLED (DrawPositive(w) /\ frame'[w].pc = "l124"
                             /\ frame'[w].positive_idx = j)
              /\ ~ENABLED (DrawPositive(w) /\ frame'[w].pc = "raised")
        /\ PositiveDrawn(f) =>
              /\ f.idx \in Range(f.opts_pos)
              /\ f.positive_idx \in Range(f.opts_pos)
        /\ f.pc = "raised" => f.raised_at # 123
        /\ f.pc = "raised" /\ f.error = "ValueError" => f.positive_idx # -1

\* C12 witness: a call with several positive candidates drew the anchor
\* itself as the positive.
C12_Witness ==
    \E w \in Callers :
        /\ frame[w].pc = "l124"
        /\ Len(frame[w].opts_pos) >= 2
        /\ frame[w].positive_idx = frame[w].idx

\* the outcomes line 123 and line 125 can produce for anchor i on a dataset
\* whose label vector is labs
PositiveOutcomes(labs, i) == {j \in DOMAIN labs : labs[j] = labs[i]}
NegativeOutcomes(labs, i) == {j \in DOMAIN labs : labs[j] # labs[i]}

\* C13: the label vector stays as it was at construction whatever calls were
\* made, and a call keeps no record of earlier draws: after any sequence of
\* returned calls, every positive and every negative that was possible for
\* anchor i on the first call is still a possible result, and nothing else
\* is drawn.
C13_DrawsKeepNoRecord ==
    history.on =>
        /\ labels = history.labels0
        /\ \A w \in Callers :
              LET f == frame[w] IN
              /\ f.pc = "l122" =>
                    \A j \in PositiveOutcomes(history.labels0, f.idx) :
                        ENABLED (DrawPositive(w) /\ frame'[w].positive_idx = j)
              /\ f.pc = "l124" /\ NegativeOutcomes(history.labels0, f.idx) # {} =>
                    \A j \in NegativeOutcomes(history.labels0, f.idx) :
                        ENABLED (DrawNegative(w) /\ frame'[w].negative_idx = j)
              /\ PositiveDrawn(f) =>
                    f.positive_idx \in PositiveOutcomes(history.labels0, f.idx)
              /\ f.pc \in {"l126", "l128", "l129", "l130", "returned"} =>
                    f.negative_idx \in NegativeOutcomes(history.labels0, f.idx)

\* C13 witness: two calls with the same anchor returned the same positive
\* although another positive was available.
C13_Witness ==
    /\ history.on
    /\ Len(history.calls) = 2
    /\ history.calls[1][1] = history.calls[2][1]
    /\ history.calls[1][2] = history.calls[2][2]
    /\ Cardinality(PositiveOutcomes(labels, history.calls[1][1])) >= 2

\* the writes of orig_dataset.height and the fetches of a call that
\* returned, in program order
ReturnedTrace(f) ==
    <<HeightWrite(height_list[1]), Fetch(f.idx),
      HeightWrite(height_list[2]), Fetch(f.positive_idx),
      HeightWrite(height_list[3]), Fetch(f.negative_idx)>>

HeightWrites(tr) == SelectSeq(tr, LAMBDA ev : ev.op = "height")

\* C15: a call that returned wrote the wrapped dataset's height exactly three
\* times, height_list[0], height_list[1], height_list[2] in that order, each
\* write directly before the fetch of its role (anchor, positive, negative);
\* once a call that runs alone has returned, height is height_list[2].
C15_ThreeHeightWrites ==
    \A w \in Callers :
        LET f == frame[w] IN
        f.pc = "returned" =>
            /\ f.trace = ReturnedTrace(f)
            /\ Len(HeightWrites(f.trace)) = 3
            /\ height = height_list[3]

\* C15 witness: with height list [32,64,128] a call has returned after
\* writing 32, 64 and 128, and height is 128.
C15_Witness ==
    /\ height_list = <<32, 64, 128>>
    /\ \E w \in Callers :
          /\ frame[w].pc = "returned"
          /\ HeightWrites(frame[w].trace) =
                <<HeightWrite(32), HeightWrite(64), HeightWrite(128)>>
          /\ height = 128

\* C17: when the negative draw of line 125 raises, the anchor has been
\* fetched and neither the positive nor the negative has; the positive index
\* is already drawn, and the wrapped dataset's height stays at
\* height_list[0], whatever it was when the call began.
C17_RaiseLeavesAnchorHeight ==
    \A w \in Callers :
        LET f == frame[w] IN
        f.pc = "raised" /\ f.raised_at = 125 =>
            /\ f.error = "ValueError"
            /\ f.opts_neg = <<>>
            /\ f.positive_idx # -1
            /\ f.negative_idx = -1
            /\ f.trace = <<HeightWrite(height_list[1]), Fetch(f.idx)>>
            /\ f.im # NoImage
            /\ f.im_pos = NoImage
            /\ f.im_neg = NoImage
            /\ height = height_list[1]

\* C17 witness: a call that began at height 16 with the default height list
\* on a single-label dataset raised; height is 256, not 16.
C17_Witness ==
    /\ AllSameLabel
    /\ history.on
    /\ history.entry_height = 16
    /\ \E w \in Callers :
          /\ frame[w].pc = "raised"
          /\ frame[w].raised_at = 125
          /\ frame[w].im # NoImage
          /\ height = 256

----------------------------------------------------------------------------
(* CUBDataset.__init__ (datasets.py, inrae_big/datasets.py) *)

\* most rows of train_test_split.txt
MaxRows == 4

\* the kept fraction as <<numerator, denominator>>: 0.9 written into
\* datasets.py; the parameter split of inrae_big/datasets.py, 1 by default
Splits == {<<9, 10>>, <<1, 1>>, <<1, 2>>}

\* the column 'train' of the merged frame, whose index is 0..N-1
TrainColumns == UNION {[0..(len - 1) -> {0, 1}] : len \in 1..MaxRows}

\* dataset.loc[dataset['train'] == v]: the index labels kept, in file order
Loc(col, v) == SortedSeq({r \in DOMAIN col : col[r] = v})

\* np.arange(n) after np.random.shuffle: any ordering of 0..n-1
Shuffles(n) ==
    {p \in [1..n -> 0..(n - 1)] : \A a, b \in 1..n : p[a] = p[b] => a = b}

\* int(len(samples) * split)
KeptCount(n, split) == (n * split[1]) \div split[2]

\* samples[:k]
Prefix(samples, k) == SubSeq(samples, 1, k)

\* dataset.iloc[positions]: the rows at these positions, in their order
ILoc(rows, positions) == [k \in DOMAIN positions |-> At(rows, positions[k])]

\* dataset.drop(dataset.index[positions]): the rows left, in file order
DropLabels(rows, positions) ==
    SelectSeq(rows, LAMBDA r : r \notin Range(positions))
Drop(rows, positions) ==
    LET dropped == {At(rows, positions[k]) : k \in DOMAIN positions}
    IN SelectSeq(rows, LAMBDA r : r \notin dropped)

\* train_samples of a call: None or a list
None == [given |-> FALSE, list |-> <<>>]
Given(l) == [given |-> TRUE, list |-> l]

TrainSamplesMissingNever(train_samples) == FALSE
TrainSamplesMissing(train_samples) == ~train_samples.given

\* what a construction left: the object's rows (index labels of the merged
\* frame, in the object's order) or the error raised; samples and
\* train_samples are the local and the argument of that name
NoDataset == [made |-> FALSE, error |-> "none", rows |-> <<>>,
              samples |-> <<>>, trainsamples |-> <<>>,
              train_samples |-> None]

\* mode == 'train', lines 308-313; a run constructs the training dataset
\* once (__main__, line 397)
ConstructTrain ==
    /\ cub.pc = "files"
    /\ ~cub.trainset.made
    /\ LET dataset == Loc(cub.train, 1)
       IN \E samples \in Shuffles(Len(dataset)) :
            LET trainsamples ==
                    Prefix(samples, KeptCount(Len(samples), cub.split))
            IN cub' = [cub EXCEPT !.trainset =
                          [NoDataset EXCEPT !.made = TRUE,
                                            !.samples = samples,
                                            !.trainsamples = trainsamples,
                                            !.rows = ILoc(dataset, trainsamples)]]
    /\ UNCHANGED <<tripletVars, landmarkVars, rigidVars, whale>>

\* mode == 'test', lines 315-316
ConstructTest ==
    /\ cub.pc = "files"
    /\ cub' = [cub EXCEPT !.testset =
                  [NoDataset EXCEPT !.made = TRUE, !.rows = Loc(cub.train, 0)]]
    /\ UNCHANGED <<tripletVars, landmarkVars, rigidVars, whale>>

\* mode == 'val', lines 317-322
ConstructVal(train_samples) ==
    /\ cub.pc = "files"
    /\ LET dataset == Loc(cub.train, 1)
       IN IF TrainSamplesMissing(train_samples)
          THEN cub' = [cub EXCEPT !.valset =
                          [NoDataset EXCEPT !.error = "RuntimeError"]]
          ELSE cub' = [cub EXCEPT !.valset =
                          [NoDataset EXCEPT !.made = TRUE,
                                            !.train_samples = train_samples,
                                            !.rows = Drop(dataset, train_samples.list)]]
    /\ UNCHANGED <<tripletVars, landmarkVars, rigidVars, whale>>

\* train_samples as a caller passes it: left out, or the trainsamples of
\* the training dataset constructed before (__main__, lines 397-398)
TrainSamplesArgs ==
    {None} \cup (IF cub.trainset.made THEN {Given(cub.trainset.trainsamples)}
                 ELSE {})

CubNext ==
    \/ ConstructTrain
    \/ ConstructTest
    \/ \E train_samples \in TrainSamplesArgs : ConstructVal(train_samples)

CubInit ==
    /\ \E col \in TrainColumns, split \in Splits :
          cub = [pc |-> "files", train |-> col, split |-> split,
                 trainset |-> NoDataset, testset |-> NoDataset,
                 valset |-> NoDataset]
    /\ WhaleOff
    /\ TripletOff
    /\ LandmarkOff
    /\ RigidOff

SpecCub == CubInit /\ [][CubNext]_vars

\* C14: constructing the 'val' dataset without train_samples raises
\* RuntimeError and yields no dataset, whatever was constructed before; a
\* 'val' dataset that exists was given a list.
C14_ValWithoutSamplesRaises ==
    cub.pc = "files" =>
        /\ ENABLED (ConstructVal(None) /\ cub'.valset.error = "RuntimeError"
                    /\ ~cub'.valset.made)
        /\ ~ENABLED (ConstructVal(None) /\ cub'.valset.made)
        /\ cub.valset.made => cub.valset.train_samples.given
        /\ cub.valset.error = "RuntimeError" =>
              /\ ~cub.valset.made
              /\ cub.valset.rows = <<>>

\* C14 witness: a training dataset with training rows exists, and the
\* construction of 'val' without train_samples ended in RuntimeError.
C14_Witness ==
    /\ cub.pc = "files"
    /\ cub.trainset.made
    /\ cub.trainset.rows # <<>>
    /\ cub.valset.error = "RuntimeError"
    /\ ~cub.valset.made

CubTrainingRows == Loc(cub.train, 1)

\* C16: 'train' keeps the first floor(split * n) entries of a permutation of
\* the positions 0..n-1 of the n training rows (split is 0.9 in datasets.py)
\* and records them in trainsamples; a 'val' dataset built with that list
\* holds exactly the training rows at the other positions, shares no row with
\* the 'train' dataset, and the two together are all n training rows.
C16_TrainValPartition ==
    cub.pc = "files" =>
        LET n == Len(CubTrainingRows)
            t == cub.trainset
            v == cub.valset
            k == (n * cub.split[1]) \div cub.split[2]
        IN
        /\ t.made =>
              /\ Len(t.samples) = n
              /\ Range(t.samples) = 0..(n - 1)
              /\ t.trainsamples = SubSeq(t.samples, 1, k)
              /\ Len(t.rows) = k
              /\ \A j \in 1..k : t.rows[j] = CubTrainingRows[t.trainsamples[j] + 1]
        /\ t.made /\ v.made /\ v.train_samples = Given(t.trainsamples) =>
              /\ v.rows = SelectSeq(CubTrainingRows, LAMBDA r :
                             \E pos \in (0..(n - 1)) \ Range(t.trainsamples) :
                                 r = CubTrainingRows[pos + 1])
              /\ Range(v.rows) \cap Range(t.rows) = {}
              /\ Range(v.rows) \cup Range(t.rows) = Range(CubTrainingRows)
              /\ Len(v.rows) + Len(t.rows) = n

\* C16 witness: of three training rows that follow a test row, 'train' kept
\* two in shuffled order and 'val', given its trainsamples, holds the third.
C16_Witness ==
    /\ cub.pc = "files"
    /\ cub.train = [r \in 0..3 |-> IF r = 0 THEN 0 ELSE 1]
    /\ cub.split = <<9, 10>>
    /\ cub.trainset.made
    /\ cub.trainset.trainsamples = <<2, 0>>
    /\ cub.trainset.rows = <<3, 1>>
    /\ cub.valset.made
    /\ cub.valset.train_samples = Given(<<2, 0>>)
    /\ cub.valset.rows = <<2>>

----------------------------------------------------------------------------
(* WhaleDataset.__init__ (datasets.py, inrae_big/datasets.py) *)

\* most rows of train.csv
MaxCsvRows == 4

\* the values of column 'Id', ordered as np.unique orders them
IdValues == {3, 5, 8}

\* column 'Id' of train.csv by row 0..N-1; column 'Image' gives every row
\* its own file name, which the model writes as the row number
IdColumns == UNION {[0..(len - 1) -> IdValues] : len \in 1..MaxCsvRows}
Image(i) == i

WhaleModes == {"train", "val", "no_set"}

\* np.unique(train_data['Id']): the distinct values in ascending order
Unique(col) == SortedSeq({col[r] : r \in DOMAIN col})

\* self.unique_labels.index(v) (0-based)
IndexOf(unique_labels, v) ==
    (CHOOSE k \in DOMAIN unique_labels : unique_labels[k] = v) - 1

\* np.zeros(len(self.unique_labels))
Zeros(n) == [l \in 0..(n - 1) |-> 0]

\* lines 57-60: 2 for the first row seen of a label, 1 afterwards
SetIdFirstRowOnly(seen, lab) == IF \A l \in DOMAIN seen : seen[l] = 0 THEN 2 ELSE 1
SetId(seen, lab) == IF seen[lab] = 0 THEN 2 ELSE 1

\* np.array(values)[np.array(setid) == v]
Masked(values, setid, v) ==
    LET keep == SortedSeq({k \in DOMAIN values : setid[k] = v})
    IN [j \in DOMAIN keep |-> values[keep[j]]]

NoWhale == [made |-> FALSE, labels |-> <<>>, label_ids |-> <<>>,
            names |-> <<>>]

\* lines 38-51: a construction reads train.csv and starts the loop
WhaleBegin(mode) ==
    /\ whale.pc = "idle"
    /\ whale' = [whale EXCEPT !.pc = "loop", !.mode = mode, !.i = 0,
                              !.unique_labels = Unique(whale.Id),
                              !.labels = <<>>, !.label_ids = <<>>,
                              !.setid = <<>>, !.names = <<>>,
                              !.unique_labels_seen =
                                  Zeros(Len(Unique(whale.Id)))]
    /\ UNCHANGED <<tripletVars, landmarkVars, rigidVars, cub>>

\* lines 52-61: one pass of the loop body
ScanRow ==
    /\ whale.pc = "loop"
    /\ whale.i < Cardinality(DOMAIN whale.Id)
    /\ LET id == whale.Id[whale.i]
       IN IF id \in Range(whale.unique_labels)
          THEN LET lab == IndexOf(whale.unique_labels, id)
               IN whale' = [whale EXCEPT
                     !.i = @ + 1,
                     !.labels = Append(@, lab),
                     !.label_ids = Append(@, id),
                     !.names = Append(@, Image(whale.i)),
                     !.setid = Append(@, SetId(whale.unique_labels_seen, lab)),
                     !.unique_labels_seen[lab] = @ + 1]
          ELSE whale' = [whale EXCEPT !.i = @ + 1]
    /\ UNCHANGED <<tripletVars, landmarkVars, rigidVars, cub>>

\* lines 62-75: the rows of the mode become the object's arrays
Select ==
    /\ whale.pc = "loop"
    /\ whale.i = Cardinality(DOMAIN whale.Id)
    /\ LET obj ==
             CASE whale.mode = "train" ->
                    [made |-> TRUE,
                     labels |-> Masked(whale.labels, whale.setid, 1),
                     label_ids |-> Masked(whale.label_ids, whale.setid, 1),
                     names |-> Masked(whale.names, whale.setid, 1)]
               [] whale.mode = "val" ->
                    [made |-> TRUE,
                     labels |-> Masked(whale.labels, whale.setid, 2),
                     label_ids |-> Masked(whale.label_ids, whale.setid, 2),
                     names |-> Masked(whale.names, whale.setid, 2)]
               [] whale.mode = "no_set" ->
                    [made |-> TRUE, labels |-> whale.labels,
                     label_ids |-> whale.label_ids, names |-> whale.names]
       IN whale' = [whale EXCEPT !.pc = "idle",
                                 !.built = [@ EXCEPT ![whale.mode] = obj]]
    /\ UNCHANGED <<tripletVars, landmarkVars, rigidVars, cub>>

WhaleNext ==
    \/ \E mode \in WhaleModes : WhaleBegin(mode)
    \/ ScanRow
    \/ Select

WhaleInit ==
    /\ \E col \in IdColumns :
          whale = [pc |-> "idle", Id |-> col, mode |-> "train", i |-> 0,
                   unique_labels |-> <<>>, labels |-> <<>>,
                   label_ids |-> <<>>, setid |-> <<>>, names |-> <<>>,
                   unique_labels_seen |-> <<>>,
                   built |-> [m \in WhaleModes |-> NoWhale]]
    /\ CubOff
    /\ TripletOff
    /\ LandmarkOff
    /\ RigidOff

SpecWhale == WhaleInit /\ [][WhaleNext]_vars

\* the rows of train.csv that are the first of their Id, and how often a
\* value occurs in an array
FirstRows(col) == {r \in DOMAIN col : \A q \in DOMAIN col : q < r => col[q] # col[r]}
Count(arr, v) == Cardinality({k \in DOMAIN arr : arr[k] = v})
Entries(obj) ==
    {<<obj.names[k], obj.labels[k], obj.label_ids[k]>> : k \in DOMAIN obj.names}

\* C18: the first row of every distinct Id goes to 'val' and every later row
\* to 'train': 'val' holds each label exactly once, 'train' holds a label
\* that has k rows k-1 times, the two share no row, and together they are
\* exactly the 'no_set' dataset.
C18_FirstRowOfLabelIsVal ==
    whale.pc # "off" =>
        LET col == whale.Id
            ids == {col[r] : r \in DOMAIN col}
            train == whale.built["train"]
            val == whale.built["val"]
            no_set == whale.built["no_set"]
        IN
        /\ whale.pc = "loop" =>
              \A k \in DOMAIN whale.setid :
                  whale.setid[k] = IF (k - 1) \in FirstRows(col) THEN 2 ELSE 1
        /\ val.made =>
              /\ val.names = SortedSeq(FirstRows(col))
              /\ Len(val.labels) = Cardinality(ids)
              /\ \A v \in ids : Count(val.label_ids, v) = 1
              /\ \A l \in 0..(Cardinality(ids) - 1) : Count(val.labels, l) = 1
        /\ train.made =>
              /\ train.names = SortedSeq(DOMAIN col \ FirstRows(col))
              /\ \A v \in ids :
                    /\ Count(train.label_ids, v) = Count(col, v) - 1
                    /\ Count(train.labels, IndexOf(Unique(col), v)) =
                           Count(col, v) - 1
        /\ train.made /\ val.made =>
              /\ Range(train.names) \cap Range(val.names) = {}
              /\ Entries(train) \cap Entries(val) = {}
        /\ train.made /\ val.made /\ no_set.made =>
              /\ Entries(train) \cup Entries(val) = Entries(no_set)
              /\ Len(train.names) + Len(val.names) = Len(no_set.names)
              /\ Range(no_set.names) = DOMAIN col

\* C18 witness: for the Id column [5,3,5,5] all three datasets were
\* constructed: 'val' holds rows 0 and 1 (labels 1 and 0), 'train' rows 2
\* and 3 (label 1 twice).
C18_Witness ==
    /\ whale.pc = "idle"
    /\ whale.Id = [r \in 0..3 |-> IF r = 1 THEN 3 ELSE 5]
    /\ whale.built["no_set"].made
    /\ whale.built["val"].names = <<0, 1>>
    /\ whale.built["val"].labels = <<1, 0>>
    /\ whale.built["train"].names = <<2, 3>>
    /\ whale.built["train"].labels = <<1, 1>>

====
